---- MODULE Spec2Model ----
(***************************************************************************)
(* The saga engine of src/saga.py: UserCommandOrchestrator registers       *)
(* (action, compensation) pairs as Action records, Saga.execute runs the   *)
(* actions in list order threading each result into the next call, and on  *)
(* an action failure Saga._run_compensations undoes the completed steps in *)
(* reverse order and a SagaError is raised.                                *)
(*                                                                         *)
(* Step indices are 0-based as in the source; the TLA+ sequence `steps`    *)
(* holds step i at position i + 1.  A run is built as run_saga builds it:  *)
(* add_step wraps every pair in an Action, so the isinstance test of line  *)
(* 78 holds for every element of steps.  A callable, synchronous or not,   *)
(* is first called (its arguments are bound) and then returns or raises;   *)
(* `await result` of lines 58-59 and 66-67 lies between the two.           *)
(***************************************************************************)
EXTENDS Integers, Sequences, FiniteSets, TLC

\* Largest number of steps registered before a run.
MaxSteps == 3

(***************************************************************************)
(* Python values.  A value is a record [t, v]: t is its type, v its        *)
(* elements (a scalar carries its one payload in v).                       *)
(***************************************************************************)
NoneVal == [t |-> "None", v |-> <<>>]

Scalar(x) == [t |-> "scalar", v |-> <<x>>]

EmptyList == [t |-> "list", v |-> <<>>]

\* What an action may return: None, a scalar (a falsy one), an empty list and
\* a two-element tuple.
Results ==
    { NoneVal, Scalar(0), EmptyList, [t |-> "tuple", v |-> <<1, 2>>] }

(***************************************************************************)
(* Callables.  What the engine reads of a callable is its code object:     *)
(* argcount positional parameters, an optional *args parameter and nlocals *)
(* local variables.  co_varnames lists the parameters and then the locals. *)
(***************************************************************************)
Fn(argcount, varargs, nlocals) ==
    [argcount |-> argcount, varargs |-> varargs, nlocals |-> nlocals]

\* len(fn.__code__.co_varnames)
co_varnames(fn) == fn.argcount + (IF fn.varargs THEN 1 ELSE 0) + fn.nlocals

\* The callable declares at least one parameter.
DeclaresParameter(fn) == fn.argcount > 0 \/ fn.varargs

\* Python binds nargs positional arguments to fn's parameters; otherwise the
\* call raises TypeError before the body runs.
Binds(fn, nargs) ==
    IF fn.varargs THEN nargs >= fn.argcount ELSE nargs = fn.argcount

\* The (action, compensation) pairs a caller registers: a pair of lambdas
\* without parameters or locals; the shape of the usage example
\* (create_order, cancel_order): no parameter but locals, one parameter;
\* the reverse; and a pair taking *args.
StepPairs ==
    { <<Fn(0, FALSE, 0), Fn(0, FALSE, 0)>>,
      <<Fn(0, FALSE, 1), Fn(1, FALSE, 1)>>,
      <<Fn(1, FALSE, 0), Fn(0, FALSE, 1)>>,
      <<Fn(0, TRUE, 0), Fn(0, TRUE, 0)>> }

(***************************************************************************)
(* Exceptions.  An exception object is identified by its class, the method *)
(* it came out of and the step.  TypeError and Error (any user error) are  *)
(* subclasses of Exception; CancelledError stands for the classes that     *)
(* derive from BaseException only (asyncio.CancelledError,                 *)
(* KeyboardInterrupt, SystemExit).                                         *)
(***************************************************************************)
Exc(cls, by, step) == [cls |-> cls, by |-> by, step |-> step]

NoExc == Exc("None", "None", -1)

\* The classes a callable's body may raise.
RaisedClasses == {"Error", "CancelledError"}

\* Mutant of IsException: a bare `except:`, which handles every class.
IsBaseException(e) == e.cls \in {"Error", "TypeError", "CancelledError"}

\* isinstance(e, Exception): what `except Exception` handles.
IsException(e) == e.cls \in {"Error", "TypeError"}

(***************************************************************************)
(* Traceback texts.  A text is a sequence of blocks: the trace of one      *)
(* exception, or the line "During handling of the above exception,         *)
(* another exception occurred:" that Python prints between an exception    *)
(* and the one raised while it was being handled.                          *)
(***************************************************************************)
Trace(e) == [block |-> "Traceback", of |-> e]

Separator == [block |-> "During handling", of |-> NoExc]

\* traceback.format_exc() for e raised while context was being handled
\* (context = NoExc: raised outside any handler).
format_exc(e, context) ==
    IF context = NoExc THEN <<Trace(e)>>
    ELSE <<Trace(context), Separator, Trace(e)>>

\* text.partition(Separator)[2]: what follows the first separator, the
\* empty text when there is none.
partition(text) ==
    IF \E i \in 1..Len(text) : text[i] = Separator
    THEN LET i == CHOOSE i \in 1..Len(text) :
                      /\ text[i] = Separator
                      /\ \A j \in 1..(i - 1) : text[j] # Separator
         IN  SubSeq(text, i + 1, Len(text))
    ELSE <<>>

NoTraceback == <<>>

(***************************************************************************)
(* Action: the dataclass of lines 49-54.                                   *)
(***************************************************************************)
Action(action, compensation) ==
    [action |-> action, compensation |-> compensation,
     compensation_args |-> NoneVal, result |-> NoneVal]

\* The arguments Action.act / Action.compensate pass to the callable:
\* given, if the callable's co_varnames is non-empty, else none.
PassedArgs(fn, given) == IF co_varnames(fn) > 0 THEN given ELSE <<>>

\* Mutant of Normalize: `if not actioned_result` in place of `is None`.
NormalizeFalsy(actioned_result) ==
    IF actioned_result \in {NoneVal, Scalar(0), EmptyList} THEN EmptyList
    ELSE IF actioned_result.t \in {"list", "tuple"} THEN actioned_result
    ELSE [t |-> "tuple", v |-> <<actioned_result.v[1]>>]

\* The normalisation of an action's result into the next arguments.
Normalize(actioned_result) ==
    IF actioned_result = NoneVal THEN EmptyList
    ELSE IF actioned_result.t \in {"list", "tuple"} THEN actioned_result
    ELSE [t |-> "tuple", v |-> <<actioned_result.v[1]>>]

(***************************************************************************)
(* SagaError                                                               *)
(***************************************************************************)
\* Mutant of SagaError: the failed step counted from one.
SagaErrorOneBased(failed_step_index, action_exception, action_traceback, compensation_exception_tracebacks) ==
    [failed_step_index |-> failed_step_index + 1,
     action_exception |-> action_exception,
     action_traceback |-> action_traceback,
     compensation_exception_tracebacks |-> compensation_exception_tracebacks]

SagaError(failed_step_index, action_exception, action_traceback, compensation_exception_tracebacks) ==
    [failed_step_index |-> failed_step_index,
     action_exception |-> action_exception,
     action_traceback |-> action_traceback,
     compensation_exception_tracebacks |-> compensation_exception_tracebacks]

NoError == SagaError(-1, NoExc, NoTraceback, <<>>)

\* An event of the run's history.
Event(ev, step, given, passed, value, e) ==
    [ev |-> ev, step |-> step, given |-> given, passed |-> passed,
     value |-> value, exc |-> e]

VARIABLES
    steps,                    \* the orchestrator's / saga's list of Action
    pc,                       \* where the run is
    index,                    \* Saga.execute: the loop index
    args,                     \* Saga.execute: the arguments of the next act
    exc,                      \* Saga.execute: the caught action exception
    action_traceback_str,     \* Saga.execute: its traceback
    compensation_index,       \* _run_compensations: the loop index
    compensation_exceptions,  \* _run_compensations: index -> (exc, traceback)
    raised,                   \* the SagaError the caller of execute receives
    propagated,               \* an exception that left execute unwrapped
    history,                  \* the calls made and how they ended, in order
    orchestrators,            \* several runs: each orchestrator's list of Action
    registered,               \* several runs: each orchestrator's add_step calls
    writer,                   \* several runs: the run that last wrote each Action
    runs                      \* several runs: each run's local state

vars == <<steps, pc, index, args, exc, action_traceback_str,
          compensation_index, compensation_exceptions, raised, propagated,
          history>>

\* The state of the specification of several runs (RunsSpec).
rvars == <<orchestrators, registered, writer, runs>>

\* steps[i] of the source
StepAt(i) == steps[i + 1]

\* The orchestrators of RunsSpec and its runs: two of each.
Orchestrators == {"o1", "o2"}

RunIds == {1, 2}

\* A run that has not been started.
IdleRun ==
    [orch |-> "none", pc |-> "idle", index |-> 0, args |-> EmptyList,
     exc |-> NoExc, action_traceback_str |-> NoTraceback,
     compensation_index |-> -1, compensation_exceptions |-> <<>>,
     raised |-> NoError, propagated |-> NoExc, history |-> <<>>,
     started_len |-> 0, ended_len |-> -1]

RunsInit ==
    /\ orchestrators = [o \in Orchestrators |-> <<>>]
    /\ registered = [o \in Orchestrators |-> <<>>]
    /\ writer = [o \in Orchestrators |-> <<>>]
    /\ runs = [r \in RunIds |-> IdleRun]

Init ==
    /\ RunsInit
    /\ steps = <<>>
    /\ pc = "registering"
    /\ index = 0
    /\ args = EmptyList
    /\ exc = NoExc
    /\ action_traceback_str = NoTraceback
    /\ compensation_index = -1
    /\ compensation_exceptions = <<>>
    /\ raised = NoError
    /\ propagated = NoExc
    /\ history = <<>>

\* UserCommandOrchestrator.add_step
add_step(action, compensation) ==
    /\ pc = "registering"
    /\ UNCHANGED rvars
    /\ Len(steps) < MaxSteps
    /\ steps' = Append(steps, Action(action, compensation))
    /\ UNCHANGED <<pc, index, args, exc, action_traceback_str,
                   compensation_index, compensation_exceptions, raised,
                   propagated, history>>

\* The state of the for loop of Saga.execute at position i: the next step is
\* called if there is one, else execute returns self.
LoopAt(i) == IF i < Len(steps) THEN "running" ELSE "completed"

\* UserCommandOrchestrator.execute -> Saga(self.steps).execute(), up to the
\* first call.
execute ==
    /\ pc = "registering"
    /\ UNCHANGED rvars
    /\ args' = EmptyList
    /\ index' = 0
    /\ pc' = LoopAt(0)
    /\ UNCHANGED <<steps, exc, action_traceback_str, compensation_index,
                   compensation_exceptions, raised, propagated, history>>

(***************************************************************************)
(* Saga.execute, forward phase.                                            *)
(***************************************************************************)

\* Mutant of FirstCompensation: the failed step is compensated too.
FirstCompensationFromFailed(last_action_index) == last_action_index

\* range(last_action_index - 1, -1, -1): its first element
FirstCompensation(last_action_index) == last_action_index - 1

\* range(last_action_index - 1, -1, -1): the element after ci
NextCompensation(ci) == ci - 1

\* Mutant of InRange: range(last_action_index - 1, 0, -1), which stops
\* before step 0.
InRangeAboveZero(ci) == ci > 0

\* range(last_action_index - 1, -1, -1): ci is inside the range
InRange(ci) == ci > -1

\* The except clause of lines 89-92 for the exception e of steps[index].act,
\* up to the first compensation call; with no step to compensate the
\* SagaError is raised at once.  h is the history including the failed call.
ExceptAction(e, h) ==
    LET tb == format_exc(e, NoExc)
        first == FirstCompensation(index)
    IN  /\ exc' = e
        /\ action_traceback_str' = tb
        /\ compensation_exceptions' = <<>>
        /\ compensation_index' = first
        /\ IF InRange(first)
           THEN /\ pc' = "compensating"
                /\ raised' = raised
           ELSE /\ pc' = "failed"
                /\ raised' = SagaError(index, e, tb, <<>>)
        /\ history' = h
        /\ UNCHANGED <<steps, index, args, propagated>>

\* An exception `except Exception` does not handle leaves execute as it is.
Propagate(e, h) ==
    /\ pc' = "propagated"
    /\ propagated' = e
    /\ history' = h
    /\ UNCHANGED <<steps, index, args, exc, action_traceback_str,
                   compensation_index, compensation_exceptions, raised>>

\* Line 80 and Action.act, line 57: the action is called with the arguments
\* PassedArgs chooses; a call Python cannot bind raises TypeError.
act_call ==
    /\ pc = "running"
    /\ UNCHANGED rvars
    /\ LET fn == StepAt(index).action
           passed == PassedArgs(fn, args.v)
           call == Event("act_call", index, args.v, passed, NoneVal, NoExc)
           e == Exc("TypeError", "act", index)
       IN  IF Binds(fn, Len(passed))
           THEN /\ pc' = "action"
                /\ history' = Append(history, call)
                /\ UNCHANGED <<steps, index, args, exc, action_traceback_str,
                               compensation_index, compensation_exceptions,
                               raised, propagated>>
           ELSE ExceptAction(e, history \o <<call,
                    Event("act_raise", index, <<>>, <<>>, NoneVal, e)>>)

\* Mutant of StoreResult: the normalised arguments kept as the result.
StoreResultNormalized(action, new_args, actioned_result) ==
    [action EXCEPT !.compensation_args = new_args, !.result = new_args]

\* Mutant of StoreResult: line 87 left out.
StoreResultOnly(action, new_args, actioned_result) ==
    [action EXCEPT !.result = actioned_result]

\* Lines 87-88: the writes to the Action after its action succeeded.
StoreResult(action, new_args, actioned_result) ==
    [action EXCEPT !.compensation_args = new_args,
                   !.result = actioned_result]

\* Lines 58-60 and 81-88: the action returns actioned_result.
act_return(actioned_result) ==
    /\ pc = "action"
    /\ UNCHANGED rvars
    /\ args' = Normalize(actioned_result)
    /\ steps' = [steps EXCEPT ![index + 1] =
                    StoreResult(@, Normalize(actioned_result), actioned_result)]
    /\ index' = index + 1
    /\ pc' = LoopAt(index + 1)
    /\ history' = Append(history,
            Event("act_return", index, <<>>, <<>>, actioned_result, NoExc))
    /\ UNCHANGED <<exc, action_traceback_str, compensation_index,
                   compensation_exceptions, raised, propagated>>

\* Lines 58-60 and 89-92: the action raises an exception of class cls.
act_raise(cls) ==
    /\ pc = "action"
    /\ UNCHANGED rvars
    /\ LET e == Exc(cls, "act", index)
           h == Append(history,
                    Event("act_raise", index, <<>>, <<>>, NoneVal, e))
       IN  IF IsException(e) THEN ExceptAction(e, h) ELSE Propagate(e, h)

(***************************************************************************)
(* Saga._run_compensations                                                 *)
(***************************************************************************)

\* Mutant of Record: the compensation failure is swallowed.
RecordDropped(errors, ci, e) == errors

\* compensation_exceptions[compensation_index] = (exc, traceback_str)
Record(errors, ci, e) ==
    [j \in DOMAIN errors \cup {ci} |->
        IF j = ci THEN <<e, partition(format_exc(e, exc))>> ELSE errors[j]]

\* Mutant of Continue: line 92 does not raise, the for loop of execute goes
\* on with the next step.
ContinueLoop(errors, h) ==
    LET next == NextCompensation(compensation_index)
    IN  /\ compensation_exceptions' = errors
        /\ compensation_index' = next
        /\ raised' = raised
        /\ IF InRange(next)
           THEN /\ pc' = "compensating"
                /\ index' = index
           ELSE /\ pc' = LoopAt(index + 1)
                /\ index' = index + 1
        /\ history' = h
        /\ UNCHANGED <<steps, args, exc, action_traceback_str, propagated>>

\* The loop of lines 98-108 after the compensation at compensation_index,
\* with the errors collected so far, and line 92 when the range is exhausted.
Continue(errors, h) ==
    LET next == NextCompensation(compensation_index)
    IN  /\ compensation_exceptions' = errors
        /\ compensation_index' = next
        /\ IF InRange(next)
           THEN /\ pc' = "compensating"
                /\ raised' = raised
           ELSE /\ pc' = "failed"
                /\ raised' = SagaError(index, exc, action_traceback_str, errors)
        /\ history' = h
        /\ UNCHANGED <<steps, index, args, exc, action_traceback_str,
                       propagated>>

\* Mutant of compensate_call: line 101 without its await, so the loop goes on
\* while the compensation has not finished.
compensate_call_detached ==
    /\ pc = "compensating"
    /\ UNCHANGED rvars
    /\ Continue(compensation_exceptions,
            Append(history,
                Event("comp_call", compensation_index,
                      StepAt(compensation_index).compensation_args.v,
                      PassedArgs(StepAt(compensation_index).compensation,
                                 StepAt(compensation_index).compensation_args.v),
                      NoneVal, NoExc)))

\* Lines 100-101 and Action.compensate, lines 63-65: the compensation is
\* called with the arguments PassedArgs chooses of compensation_args;
\* unpacking None, or a call Python cannot bind, raises TypeError.
compensate_call ==
    /\ pc = "compensating"
    /\ UNCHANGED rvars
    /\ LET action == StepAt(compensation_index)
           fn == action.compensation
           given == action.compensation_args
           unpacks == co_varnames(fn) = 0 \/ given # NoneVal
           passed == PassedArgs(fn, given.v)
           call == Event("comp_call", compensation_index, given.v, passed,
                         NoneVal, NoExc)
           e == Exc("TypeError", "compensate", compensation_index)
       IN  IF unpacks /\ Binds(fn, Len(passed))
           THEN /\ pc' = "compensation"
                /\ history' = Append(history, call)
                /\ UNCHANGED <<steps, index, args, exc, action_traceback_str,
                               compensation_index, compensation_exceptions,
                               raised, propagated>>
           ELSE Continue(Record(compensation_exceptions, compensation_index, e),
                    history \o <<call,
                        Event("comp_raise", compensation_index, <<>>, <<>>,
                              NoneVal, e)>>)

\* Mutant of compensate_return: a success is recorded with a null entry.
compensate_return_recorded ==
    /\ pc = "compensation"
    /\ UNCHANGED rvars
    /\ Continue([j \in DOMAIN compensation_exceptions \cup {compensation_index}
                    |-> IF j = compensation_index THEN <<NoExc, <<>>>>
                        ELSE compensation_exceptions[j]],
                Append(history,
                    Event("comp_return", compensation_index, <<>>, <<>>,
                          NoneVal, NoExc)))

\* Lines 66-68: the compensation returns; its result is dropped.
compensate_return ==
    /\ pc = "compensation"
    /\ UNCHANGED rvars
    /\ Continue(compensation_exceptions, Append(history,
            Event("comp_return", compensation_index, <<>>, <<>>, NoneVal,
                  NoExc)))

\* Mutant of compensate_raise: a compensation that failed is tried once more
\* before its failure is recorded.
compensate_raise_retried(cls) ==
    /\ pc = "compensation"
    /\ UNCHANGED rvars
    /\ LET e == Exc(cls, "compensate", compensation_index)
           h == Append(history,
                    Event("comp_raise", compensation_index, <<>>, <<>>,
                          NoneVal, e))
           again == \A p \in 1..Len(history) :
                        ~(history[p].ev = "comp_raise"
                            /\ history[p].step = compensation_index)
       IN  IF ~IsException(e) THEN Propagate(e, h)
           ELSE IF again
           THEN /\ pc' = "compensating"
                /\ history' = h
                /\ UNCHANGED <<steps, index, args, exc, action_traceback_str,
                               compensation_index, compensation_exceptions,
                               raised, propagated>>
           ELSE Continue(Record(compensation_exceptions, compensation_index, e), h)

\* Lines 66-68 and 102-106: the compensation raises an exception of class cls.
compensate_raise(cls) ==
    /\ pc = "compensation"
    /\ UNCHANGED rvars
    /\ LET e == Exc(cls, "compensate", compensation_index)
           h == Append(history,
                    Event("comp_raise", compensation_index, <<>>, <<>>,
                          NoneVal, e))
       IN  IF IsException(e)
           THEN Continue(Record(compensation_exceptions, compensation_index, e), h)
           ELSE Propagate(e, h)

Next ==
    \/ \E pair \in StepPairs : add_step(pair[1], pair[2])
    \/ execute
    \/ act_call
    \/ \E r \in Results : act_return(r)
    \/ \E cls \in RaisedClasses : act_raise(cls)
    \/ compensate_call
    \/ compensate_return
    \/ \E cls \in RaisedClasses : compensate_raise(cls)

\* The steps of a run once execute has been called.
RunNext ==
    \/ act_call
    \/ \E r \in Results : act_return(r)
    \/ \E cls \in RaisedClasses : act_raise(cls)
    \/ compensate_call
    \/ compensate_return
    \/ \E cls \in RaisedClasses : compensate_raise(cls)

\* One orchestrator and one run of it; the state of RunsSpec stays as it
\* starts.
Spec == Init /\ [][Next]_<<vars, rvars>>

(***************************************************************************)
(* Several runs.  RunsSpec has two orchestrators and two calls of execute, *)
(* on the same orchestrator or on different ones, in any order and         *)
(* interleaved where a coroutine is suspended: while a callable it awaits  *)
(* is in flight.  Between two awaits a coroutine runs alone.  add_step may *)
(* be called whenever no coroutine is running, also during a run (by a     *)
(* callable of that run, or by another task).                              *)
(***************************************************************************)

\* Largest number of steps registered with one orchestrator.
MaxRegistered == 2

\* The pairs registered in RunsSpec: callables taking *args, and an action
\* without parameters whose compensation takes one.
RunPairs ==
    { <<Fn(0, TRUE, 0), Fn(0, TRUE, 0)>>,
      <<Fn(0, FALSE, 0), Fn(1, FALSE, 0)>> }

\* What the actions of RunsSpec return: nothing, or one value.
RunResults == {NoneVal, Scalar(0)}

\* An event of a run's history: as Event, with the callable called and, for
\* a compensation, the run that wrote the compensation_args it reads.
RunEvent(ev, step, given, passed, value, e, fn, by) ==
    [ev |-> ev, step |-> step, given |-> given, passed |-> passed,
     value |-> value, exc |-> e, fn |-> fn, writer |-> by]

NoFn == Fn(-1, FALSE, -1)

\* No other coroutine is between two awaits.
Scheduled(r) ==
    \A q \in RunIds \ {r} : runs[q].pc \notin {"running", "compensating"}

\* Mutant of AppendStep: the new step is put first.
PrependStep(list, action_) == <<action_>> \o list

\* Line 122: self.steps.append(action_)
AppendStep(list, action_) == Append(list, action_)

\* Mutant of Returned: add_step returns a new orchestrator.
ReturnedNew(self) == "new"

\* Line 123: return self
Returned(self) == self

\* UserCommandOrchestrator.add_step on orchestrator o.
register(o, action, compensation) ==
    /\ \A r \in RunIds : Scheduled(r) /\ runs[r].pc \notin {"running", "compensating"}
    /\ Len(orchestrators[o]) < MaxRegistered
    /\ orchestrators' = [orchestrators EXCEPT
            ![o] = AppendStep(@, Action(action, compensation))]
    /\ registered' = [registered EXCEPT
            ![o] = Append(@, [action |-> action, compensation |-> compensation,
                              returned |-> Returned(o)])]
    /\ writer' = [writer EXCEPT ![o] = Append(@, 0)]
    /\ UNCHANGED <<runs, vars>>

\* Mutant of Iterated: the Saga is given a copy of the list.
IteratedCopy(r) ==
    SubSeq(orchestrators[runs[r].orch], 1, runs[r].started_len)

\* Line 126: Saga(self.steps) holds the orchestrator's own list, which
\* enumerate of line 77 reads at every iteration.
Iterated(r) == orchestrators[runs[r].orch]

\* The for loop of run r at position i.
RunLoopAt(r, i) == IF i < Len(Iterated(r)) THEN "running" ELSE "completed"

\* Mutant of RunArgs: args kept in one place for all runs.
SharedArgs(r) == runs[1].args

\* Line 76: args is a local variable of the coroutine.
RunArgs(r) == runs[r].args

\* UserCommandOrchestrator.execute on orchestrator o, as run r.  The calls of
\* execute are numbered in call order, and o1 names the orchestrator of the
\* first call; the second call is on the same orchestrator or on the other.
run_execute(r, o) ==
    /\ runs[r].pc = "idle"
    /\ \A q \in RunIds : q < r => runs[q].pc # "idle"
    /\ r = 1 => o = "o1"
    /\ \A q \in RunIds : runs[q].pc \notin {"running", "compensating"}
    /\ runs' = [runs EXCEPT ![r] =
            [@ EXCEPT !.orch = o,
                      !.args = EmptyList,
                      !.index = 0,
                      !.started_len = Len(orchestrators[o]),
                      !.pc = IF 0 < Len(orchestrators[o])
                             THEN "running" ELSE "completed",
                      !.ended_len = IF 0 < Len(orchestrators[o])
                                    THEN -1 ELSE 0]]
    /\ UNCHANGED <<orchestrators, registered, writer, vars>>

\* ExceptAction for a run: the run after lines 89-92.
RunExcept(run, e, h) ==
    LET tb == format_exc(e, NoExc)
        first == FirstCompensation(run.index)
    IN  [run EXCEPT !.exc = e,
                    !.action_traceback_str = tb,
                    !.compensation_exceptions = <<>>,
                    !.compensation_index = first,
                    !.pc = IF InRange(first) THEN "compensating" ELSE "failed",
                    !.raised = IF InRange(first) THEN run.raised
                               ELSE SagaError(run.index, e, tb, <<>>),
                    !.history = h]

\* Propagate for a run.
RunPropagate(run, e, h) ==
    [run EXCEPT !.pc = "propagated", !.propagated = e, !.history = h]

\* Record for a run.
RunRecord(run, ci, e) ==
    [j \in DOMAIN run.compensation_exceptions \cup {ci} |->
        IF j = ci THEN <<e, partition(format_exc(e, run.exc))>>
        ELSE run.compensation_exceptions[j]]

\* Continue for a run.
RunContinue(run, errors, h) ==
    LET next == NextCompensation(run.compensation_index)
    IN  [run EXCEPT !.compensation_exceptions = errors,
                    !.compensation_index = next,
                    !.pc = IF InRange(next) THEN "compensating" ELSE "failed",
                    !.raised = IF InRange(next) THEN run.raised
                               ELSE SagaError(run.index, run.exc,
                                              run.action_traceback_str, errors),
                    !.history = h]

\* act_call of run r.
run_act_call(r) ==
    /\ runs[r].pc = "running"
    /\ LET run == runs[r]
           fn == Iterated(r)[run.index + 1].action
           passed == PassedArgs(fn, RunArgs(r).v)
           call == RunEvent("act_call", run.index, RunArgs(r).v, passed,
                            NoneVal, NoExc, fn, 0)
           e == Exc("TypeError", "act", run.index)
       IN  runs' = [runs EXCEPT ![r] =
                IF Binds(fn, Len(passed))
                THEN [run EXCEPT !.pc = "action",
                                 !.history = Append(run.history, call)]
                ELSE RunExcept(run, e, run.history \o <<call,
                        RunEvent("act_raise", run.index, <<>>, <<>>, NoneVal,
                                 e, fn, 0)>>)]
    /\ UNCHANGED <<orchestrators, registered, writer, vars>>

\* act_return of run r.
run_act_return(r, actioned_result) ==
    /\ runs[r].pc = "action"
    /\ Scheduled(r)
    /\ LET run == runs[r]
           o == run.orch
       IN  /\ orchestrators' = [orchestrators EXCEPT ![o][run.index + 1] =
                    StoreResult(@, Normalize(actioned_result), actioned_result)]
           /\ writer' = [writer EXCEPT ![o][run.index + 1] = r]
           /\ runs' = [runs EXCEPT ![r] =
                    [run EXCEPT
                        !.args = Normalize(actioned_result),
                        !.index = run.index + 1,
                        !.pc = RunLoopAt(r, run.index + 1),
                        !.ended_len =
                            IF RunLoopAt(r, run.index + 1) = "completed"
                            THEN Len(orchestrators[o]) ELSE -1,
                        !.history = Append(run.history,
                            RunEvent("act_return", run.index, <<>>, <<>>,
                                     actioned_result, NoExc, NoFn, 0))]]
    /\ UNCHANGED <<registered, vars>>

\* act_raise of run r.
run_act_raise(r, cls) ==
    /\ runs[r].pc = "action"
    /\ Scheduled(r)
    /\ LET run == runs[r]
           e == Exc(cls, "act", run.index)
           h == Append(run.history,
                    RunEvent("act_raise", run.index, <<>>, <<>>, NoneVal, e,
                             NoFn, 0))
       IN  runs' = [runs EXCEPT ![r] =
                IF IsException(e) THEN RunExcept(run, e, h)
                ELSE RunPropagate(run, e, h)]
    /\ UNCHANGED <<orchestrators, registered, writer, vars>>

\* compensate_call of run r.
run_compensate_call(r) ==
    /\ runs[r].pc = "compensating"
    /\ LET run == runs[r]
           ci == run.compensation_index
           action == Iterated(r)[ci + 1]
           fn == action.compensation
           given == action.compensation_args
           unpacks == co_varnames(fn) = 0 \/ given # NoneVal
           passed == PassedArgs(fn, given.v)
           call == RunEvent("comp_call", ci, given.v, passed, NoneVal, NoExc,
                            fn, writer[run.orch][ci + 1])
           e == Exc("TypeError", "compensate", ci)
       IN  runs' = [runs EXCEPT ![r] =
                IF unpacks /\ Binds(fn, Len(passed))
                THEN [run EXCEPT !.pc = "compensation",
                                 !.history = Append(run.history, call)]
                ELSE RunContinue(run, RunRecord(run, ci, e),
                        run.history \o <<call,
                            RunEvent("comp_raise", ci, <<>>, <<>>, NoneVal, e,
                                     NoFn, 0)>>)]
    /\ UNCHANGED <<orchestrators, registered, writer, vars>>

\* compensate_return of run r.
run_compensate_return(r) ==
    /\ runs[r].pc = "compensation"
    /\ Scheduled(r)
    /\ LET run == runs[r]
       IN  runs' = [runs EXCEPT ![r] =
                RunContinue(run, run.compensation_exceptions,
                    Append(run.history,
                        RunEvent("comp_return", run.compensation_index, <<>>,
                                 <<>>, NoneVal, NoExc, NoFn, 0)))]
    /\ UNCHANGED <<orchestrators, registered, writer, vars>>

\* compensate_raise of run r.
run_compensate_raise(r, cls) ==
    /\ runs[r].pc = "compensation"
    /\ Scheduled(r)
    /\ LET run == runs[r]
           ci == run.compensation_index
           e == Exc(cls, "compensate", ci)
           h == Append(run.history,
                    RunEvent("comp_raise", ci, <<>>, <<>>, NoneVal, e, NoFn, 0))
       IN  runs' = [runs EXCEPT ![r] =
                IF IsException(e)
                THEN RunContinue(run, RunRecord(run, ci, e), h)
                ELSE RunPropagate(run, e, h)]
    /\ UNCHANGED <<orchestrators, registered, writer, vars>>

RunsNext ==
    \/ \E o \in Orchestrators, pair \in RunPairs : register(o, pair[1], pair[2])
    \/ \E r \in RunIds, o \in Orchestrators : run_execute(r, o)
    \/ \E r \in RunIds : run_act_call(r)
    \/ \E r \in RunIds, result \in RunResults : run_act_return(r, result)
    \/ \E r \in RunIds, cls \in RaisedClasses : run_act_raise(r, cls)
    \/ \E r \in RunIds : run_compensate_call(r)
    \/ \E r \in RunIds : run_compensate_return(r)
    \/ \E r \in RunIds, cls \in RaisedClasses : run_compensate_raise(r, cls)

RunsSpec == Init /\ [][RunsNext]_<<vars, rvars>>

(***************************************************************************)
(* The history of a run, as the claims read it.                            *)
(***************************************************************************)

\* The events of one kind, in order.
Calls(ev) == SelectSeq(history, LAMBDA x : x.ev = ev)

StepsOf(events) == [i \in 1..Len(events) |-> events[i].step]

\* k-1, k-2, ..., 0
Descending(k) == [i \in 1..k |-> k - i]

IsPrefix(s, t) == Len(s) <= Len(t) /\ \A i \in 1..Len(s) : s[i] = t[i]

\* execute has returned or raised.
Terminal == pc \in {"completed", "failed", "propagated"}

\* The steps whose compensation was called, in call order.
Compensated == StepsOf(Calls("comp_call"))

\* The exception's class derives from Exception (TypeError, a user error),
\* not from BaseException alone (CancelledError).
DerivesFromException(e) == e.cls \in {"TypeError", "Error"}

\* Some compensation raised an exception that derives from BaseException alone.
CompensationEscaped ==
    \E i \in 1..Len(history) :
        history[i].ev = "comp_raise" /\ ~DerivesFromException(history[i].exc)

\* C1 as claimed: once the action of step k has raised and the run is over,
\* the compensations called are exactly those of steps k-1, ..., 0 in that
\* order.
C1_AsClaimed ==
    Terminal =>
        \A i \in 1..Len(history) :
            history[i].ev = "act_raise" =>
                Compensated = Descending(history[i].step)

\* C1 (amended): when the action of step k raises an instance of Exception,
\* the compensations called are those of steps k-1, k-2, ..., 0 in that
\* order with none skipped, all of them once the SagaError is raised and
\* otherwise up to a compensation whose exception is no instance of
\* Exception; when the action's exception is no instance of Exception, none
\* is called.  The compensation of a step >= k is never called, and a
\* compensation is called only for a step whose action returned earlier in
\* the run.
C1_CompensationOrder ==
    /\ Calls("act_raise") = <<>> => Compensated = <<>>
    /\ \A i \in 1..Len(history) :
        history[i].ev = "act_raise" =>
            LET k == history[i].step
            IN  /\ IsPrefix(Compensated, Descending(k))
                /\ \A j \in 1..Len(Compensated) : Compensated[j] < k
                /\ ~DerivesFromException(history[i].exc) => Compensated = <<>>
                /\ pc = "failed" => Compensated = Descending(k)
                /\ (Terminal /\ DerivesFromException(history[i].exc)
                        /\ ~CompensationEscaped)
                     => Compensated = Descending(k)
    /\ \A p \in 1..Len(history) :
        history[p].ev = "comp_call" =>
            \E q \in 1..(p - 1) :
                /\ history[q].ev = "act_return"
                /\ history[q].step = history[p].step

\* C1 witness: step 2 failed with an Exception and steps 1 and 0 were
\* compensated in that order.
C1_Witness ==
    /\ pc = "failed"
    /\ raised.failed_step_index = 2
    /\ Compensated = <<1, 0>>

\* The positions of the history holding an event of kind ev.
At(ev) == {p \in 1..Len(history) : history[p].ev = ev}

\* The mapping of compensation failures the raised SagaError carries.
Reported == raised.compensation_exception_tracebacks

\* C2 as claimed: a compensation that raised is recorded under its index and
\* every lower index is still compensated.
C2_AsClaimed ==
    Terminal =>
        \A p \in At("comp_raise") :
            /\ history[p].step \in DOMAIN compensation_exceptions
            /\ \A i \in 0..(history[p].step - 1) :
                \E q \in At("comp_call") : history[q].step = i

\* C2 (amended): a compensation of step j that raises an instance of
\* Exception is recorded under key j, with that exception, and the
\* compensation of step j-1 is called next, so that every index below j is
\* compensated whatever subset fails this way; a compensation exception
\* that is no instance of Exception is not recorded, ends the phase and
\* leaves execute as it is.
C2_CompensationContinues ==
    /\ \A p \in At("comp_raise") :
        LET j == history[p].step
            e == history[p].exc
        IN  IF DerivesFromException(e)
            THEN /\ j \in DOMAIN compensation_exceptions
                 /\ compensation_exceptions[j][1] = e
                 /\ pc = "failed" => j \in DOMAIN Reported /\ Reported[j][1] = e
                 /\ j > 0 =>
                      \/ /\ p = Len(history)
                         /\ pc = "compensating"
                         /\ compensation_index = j - 1
                      \/ /\ p < Len(history)
                         /\ history[p + 1].ev = "comp_call"
                         /\ history[p + 1].step = j - 1
                 /\ (Terminal /\ ~CompensationEscaped) =>
                      \A i \in 0..(j - 1) :
                          \E q \in At("comp_call") : q > p /\ history[q].step = i
            ELSE /\ p = Len(history)
                 /\ j \notin DOMAIN compensation_exceptions
                 /\ pc = "propagated"
                 /\ propagated = e
                 /\ raised = NoError

\* C2 witness: step 2 failed, the compensations of steps 1 and 0 both raised
\* and both are reported.
C2_Witness ==
    /\ pc = "failed"
    /\ raised.failed_step_index = 2
    /\ DOMAIN Reported = {0, 1}
    /\ \A j \in {0, 1} : Reported[j][1] = Exc("Error", "compensate", j)

\* C3: the keys of the raised SagaError's compensation_exception_tracebacks
\* are exactly the steps whose compensation was called and raised, each below
\* failed_step_index and carrying the exception raised; a step whose
\* compensation returned is no key; the mapping is empty when none raised.
C3_ReportedKeys ==
    pc = "failed" =>
        /\ DOMAIN Reported = {history[p].step : p \in At("comp_raise")}
        /\ \A j \in DOMAIN Reported :
            /\ 0 <= j /\ j < raised.failed_step_index
            /\ \E q \in At("comp_call") : history[q].step = j
            /\ \E p \in At("comp_raise") :
                history[p].step = j /\ Reported[j][1] = history[p].exc
        /\ \A p \in At("comp_return") : history[p].step \notin DOMAIN Reported
        /\ At("comp_raise") = {} => Reported = <<>>

\* C3 witness: step 2 failed, the compensation of step 1 returned and that of
\* step 0 raised; only 0 is a key.
C3_Witness ==
    /\ pc = "failed"
    /\ raised.failed_step_index = 2
    /\ \E p \in At("comp_return") : history[p].step = 1
    /\ DOMAIN Reported = {0}

\* C4: the raised SagaError names the step whose action raised, the only
\* action that raised in the run, and carries the exception it raised,
\* whatever the compensations did.
C4_FailedStepIndex ==
    pc = "failed" =>
        /\ Cardinality(At("act_raise")) = 1
        /\ \A p \in At("act_raise") :
            /\ raised.failed_step_index = history[p].step
            /\ raised.action_exception = history[p].exc
            /\ raised.action_traceback = <<Trace(history[p].exc)>>
            /\ \A q \in At("act_call") : history[q].step <= history[p].step

\* C4 witness: step 1 failed after step 0 succeeded, and the compensation of
\* step 0 failed as well.
C4_Witness ==
    /\ pc = "failed"
    /\ raised.failed_step_index = 1
    /\ raised.action_exception = Exc("Error", "act", 1)
    /\ DOMAIN Reported = {0}

\* The positional inputs a result stands for: none for None, the elements of
\* a list or tuple, the value itself otherwise.
Spread(result) ==
    IF result.t = "None" THEN <<>>
    ELSE IF result.t \in {"list", "tuple"} THEN result.v
    ELSE <<result.v[1]>>

\* C5: the inputs given to the act of step k are the spread result of the
\* action of step k-1, and none for step 0.
C5_InputsThreaded ==
    \A p \in At("act_call") :
        LET k == history[p].step
        IN  IF k = 0 THEN history[p].given = <<>>
            ELSE \E q \in At("act_return") :
                    /\ q < p
                    /\ history[q].step = k - 1
                    /\ history[p].given = Spread(history[q].value)

\* C5 witness: step 1 received the scalar of step 0 as its one input and
\* step 2 the two elements of the tuple step 1 returned.
C5_Witness ==
    /\ \E p \in At("act_call") :
        history[p].step = 1 /\ history[p].given = <<0>>
    /\ \E p \in At("act_call") :
        history[p].step = 2 /\ history[p].given = <<1, 2>>

\* C6: a run in which every action returned ends by execute returning, with
\* no exception, no compensation called, and each step's result the value
\* its action returned.
C6_SuccessfulRun ==
    /\ (pc # "registering" /\ Cardinality(At("act_return")) = Len(steps))
            => pc = "completed"
    /\ pc = "completed" =>
        /\ raised = NoError
        /\ propagated = NoExc
        /\ Compensated = <<>>
        /\ At("act_raise") = {}
        /\ Len(Calls("act_return")) = Len(steps)
        /\ \A i \in 1..Len(steps) :
            /\ Calls("act_return")[i].step = i - 1
            /\ steps[i].result = Calls("act_return")[i].value

\* C6 witness: three steps ran to the end; the first returned a scalar and
\* the last None.
C6_Witness ==
    /\ pc = "completed"
    /\ Len(steps) = 3
    /\ steps[1].result = Scalar(0)
    /\ steps[3].result = NoneVal

C8_AsClaimed ==
    (Terminal /\ At("act_raise") # {}) =>
        /\ pc = "failed"
        /\ raised # NoError
        /\ propagated = NoExc

\* C8 (amended): when an action raises an instance of Exception the forward
\* phase ends, the completed steps are compensated and, unless a compensation
\* raises an exception that is no instance of Exception, the caller receives
\* a SagaError carrying that exception, never the exception itself and never
\* a normal return.  An exception that is no instance of Exception reaches
\* the caller as it is, and after an action raised one no compensation runs.
C8_FailureSurfaces ==
    /\ \A p \in At("act_raise") :
        LET e == history[p].exc
        IN  /\ pc \notin {"registering", "running", "action", "completed"}
            /\ IF DerivesFromException(e)
               THEN /\ exc = e
                    /\ propagated # e
                    /\ (Terminal /\ ~CompensationEscaped) =>
                        /\ pc = "failed"
                        /\ raised # NoError
                        /\ raised.action_exception = e
                        /\ propagated = NoExc
                        /\ Compensated = Descending(history[p].step)
               ELSE /\ pc = "propagated"
                    /\ propagated = e
                    /\ raised = NoError
                    /\ Compensated = <<>>
    /\ pc = "failed" => At("act_raise") # {} /\ propagated = NoExc
    /\ pc = "propagated" =>
        /\ ~DerivesFromException(propagated)
        /\ raised = NoError
    /\ pc # "failed" => raised = NoError

\* C8 witness: the call of step 2 raised TypeError, steps 1 and 0 were
\* compensated and the caller received the SagaError.
C8_Witness ==
    /\ pc = "failed"
    /\ raised.action_exception = Exc("TypeError", "act", 2)
    /\ Compensated = <<1, 0>>
    /\ propagated = NoExc

\* C9: once an action has raised, or a compensation has been called, no
\* action is called or returns again: the steps after the failed one never
\* run and the run does not return to its forward phase.
C9_NoActionAfterFailure ==
    /\ \A p \in At("act_raise") \cup At("comp_call") :
        \A q \in (p + 1)..Len(history) :
            history[q].ev \notin {"act_call", "act_return", "act_raise"}
    /\ \A p \in At("act_raise") :
        /\ \A q \in At("act_call") : history[q].step <= history[p].step
        /\ pc \in {"compensating", "compensation", "failed", "propagated"}
    /\ pc \in {"compensating", "compensation", "failed"} => At("act_raise") # {}
    /\ pc \in {"running", "action", "completed"} =>
        At("act_raise") \cup At("comp_call") = {}

\* C9 witness: of three steps the second failed; the first was compensated
\* and the third never called.
C9_Witness ==
    /\ pc = "failed"
    /\ Len(steps) = 3
    /\ raised.failed_step_index = 1
    /\ Compensated = <<0>>
    /\ \A q \in At("act_call") : history[q].step # 2

\* C10 as claimed: act passes its inputs to the action, and compensate
\* compensation_args to the compensation, exactly when the callable declares
\* a parameter.
C10_AsClaimed ==
    /\ \A p \in At("act_call") :
        history[p].passed =
            IF DeclaresParameter(StepAt(history[p].step).action)
            THEN history[p].given ELSE <<>>
    /\ \A p \in At("comp_call") :
        history[p].passed =
            IF DeclaresParameter(StepAt(history[p].step).compensation)
            THEN history[p].given ELSE <<>>

\* The history holds the outcome of the call at position p: a later return or
\* raise of the same method of the same step.
Finished(p) ==
    \E m \in (p + 1)..Len(history) :
        /\ history[m].step = history[p].step
        /\ history[m].ev \in
            (IF history[p].ev = "act_call" THEN {"act_return", "act_raise"}
             ELSE {"comp_return", "comp_raise"})

\* C12 as claimed: a run is failed exactly when a SagaError was raised in it,
\* and a run in which an action raised ends with one.
C12_AsClaimed ==
    Terminal => (At("act_raise") # {} <=> raised # NoError)

\* C12 (amended): a run in which an action raised an instance of Exception
\* and no compensation raised an exception that is no instance of Exception
\* ends with one SagaError, raised once the compensation of every index
\* k-1..0 has been called and has returned or raised; none is raised while a
\* compensation is still to run, none in a run whose actions all returned,
\* and none in a run that an exception outside Exception leaves.
C12_RaisedOnceAtEnd ==
    /\ raised # NoError <=> pc = "failed"
    /\ pc = "failed" =>
        /\ ~ENABLED Next
        /\ Compensated = Descending(raised.failed_step_index)
        /\ \A p \in At("comp_call") : Finished(p)
        /\ \A j \in 0..(raised.failed_step_index - 1) :
            \E p \in At("comp_call") : history[p].step = j
    /\ pc \in {"compensating", "compensation"} => raised = NoError
    /\ \A p \in At("act_raise") :
        (Terminal /\ DerivesFromException(history[p].exc)
            /\ ~CompensationEscaped) => raised # NoError
    /\ (At("act_raise") = {} \/ pc = "propagated") => raised = NoError

\* C12 witness: step 2 failed; the compensation of step 1 raised, that of
\* step 0 returned, and only then the SagaError was raised.
C12_Witness ==
    /\ pc = "failed"
    /\ raised.failed_step_index = 2
    /\ DOMAIN Reported = {1}
    /\ history[Len(history)].ev = "comp_return"
    /\ history[Len(history)].step = 0

\* C14: in a run the action of a step is called at most once and its
\* compensation at most once.
C14_NoRetry ==
    \A p, q \in At("act_call") \cup At("comp_call") :
        (history[p].ev = history[q].ev /\ history[p].step = history[q].step)
            => p = q

\* C14 witness: three actions were called, the third failed, and both
\* compensations were called and failed.
C14_Witness ==
    /\ pc = "failed"
    /\ Len(Calls("act_call")) = 3
    /\ Len(Calls("comp_call")) = 2
    /\ Len(Calls("comp_raise")) = 2

\* A run whose caller called execute goes on: the event loop resumes the
\* coroutine, and every callable called returns or raises.
FairSpec == Spec /\ WF_<<vars, rvars>>(RunNext)

\* C15 as claimed: a run that is over completed or raised a SagaError.
C15_AsClaimed ==
    (pc # "registering" /\ ~ENABLED Next) => pc \in {"completed", "failed"}

\* C15 (amended): provided every callable called returns or raises, a run of
\* execute ends: it returns, raises a SagaError, or lets through an exception
\* that is no instance of Exception; it calls at most n actions and at most
\* n-1 compensations.
C15_Terminates ==
    /\ [](/\ Len(Calls("act_call")) <= Len(steps)
          /\ Len(Calls("comp_call")) < Len(steps) \/ Calls("comp_call") = <<>>)
    /\ (pc # "registering") ~> Terminal

\* C15 witness: a run of three steps that ended with a SagaError after three
\* action calls and two compensation calls.
C15_Witness ==
    /\ pc = "failed"
    /\ Len(steps) = 3
    /\ Len(Calls("act_call")) = 3
    /\ Len(Calls("comp_call")) = 2
    /\ Reported = <<>>

\* C19: at most one call of a run is in flight: a call starts only when every
\* earlier call has returned or raised; the action of step i+1 starts after
\* the action of step i returned, a compensation after the failing action
\* raised, and the compensation of step j-1 after that of step j ended.
C19_OneInFlight ==
    /\ \A p, q \in At("act_call") \cup At("comp_call") : p < q =>
        \E m \in (p + 1)..(q - 1) :
            /\ history[m].step = history[p].step
            /\ history[m].ev \in
                (IF history[p].ev = "act_call" THEN {"act_return", "act_raise"}
                 ELSE {"comp_return", "comp_raise"})
    /\ \A q \in At("act_call") : history[q].step > 0 =>
        \E m \in 1..(q - 1) :
            history[m].ev = "act_return" /\ history[m].step = history[q].step - 1
    /\ \A q \in At("comp_call") :
        \E m \in 1..(q - 1) :
            history[m].ev = "act_raise" /\ history[m].step > history[q].step
    /\ pc \in {"action", "compensation"} <=>
        (history # <<>>
            /\ history[Len(history)].ev \in {"act_call", "comp_call"})

\* C19 witness: the compensation of step 0 is in flight after the action of
\* step 2 raised and the compensation of step 1 ended.
C19_Witness ==
    /\ pc = "compensation"
    /\ compensation_index = 0
    /\ index = 2
    /\ \E p \in At("comp_call") : history[p].step = 1 /\ Finished(p)

(***************************************************************************)
(* Claims about registration and about several runs, read from the         *)
(* histories of the runs of RunsSpec.                                      *)
(***************************************************************************)

\* The events ev of run r, in order.
RunCalls(r, ev) == SelectSeq(runs[r].history, LAMBDA x : x.ev = ev)

\* The positions of the events ev in the history of run r.
RunAt(r, ev) == {p \in 1..Len(runs[r].history) : runs[r].history[p].ev = ev}

\* 0, 1, ..., n-1
Ascending(n) == [i \in 1..n |-> i - 1]

\* execute was called for run r.
Started(r) == runs[r].pc # "idle"

\* C11: the steps list of an orchestrator holds one Action per add_step call,
\* in call order, built from the pair of that call; every add_step returned
\* the orchestrator it was called on; a run calls the actions of steps
\* 0, 1, 2, ... in that order, each being the action registered by the call
\* of that position, and a run that completed called all of them.
C11_RegistrationOrder ==
    /\ \A o \in Orchestrators :
        /\ Len(orchestrators[o]) = Len(registered[o])
        /\ \A i \in 1..Len(registered[o]) :
            /\ orchestrators[o][i].action = registered[o][i].action
            /\ orchestrators[o][i].compensation = registered[o][i].compensation
            /\ registered[o][i].returned = o
    /\ \A r \in RunIds : Started(r) =>
        LET called == RunCalls(r, "act_call")
        IN  /\ StepsOf(called) = Ascending(Len(called))
            /\ \A i \in 1..Len(called) :
                called[i].fn = registered[runs[r].orch][i].action
            /\ runs[r].pc = "completed" => Len(called) = runs[r].ended_len

\* C11 witness: two different pairs were registered with o1 and a run on o1
\* completed after calling both actions.
C11_Witness ==
    /\ Len(registered["o1"]) = 2
    /\ registered["o1"][1].action # registered["o1"][2].action
    /\ runs[1].pc = "completed"
    /\ Len(RunCalls(1, "act_call")) = 2

\* Run r's action of step k returned value.
Succeeded(r, k, value) ==
    \E p \in RunAt(r, "act_return") :
        /\ runs[r].history[p].step = k
        /\ runs[r].history[p].value = value

\* Run r's action of step k has returned.
HasRun(r, k) ==
    \E p \in RunAt(r, "act_return") : runs[r].history[p].step = k

\* C13 as claimed: compensation_args and result of a Step are both unset or
\* both set, and a Step whose action has not returned in a run started on its
\* orchestrator has both unset.
C13_AsClaimed ==
    \A o \in Orchestrators : \A i \in 1..Len(orchestrators[o]) :
        LET step == orchestrators[o][i]
        IN  /\ step.compensation_args = NoneVal <=> step.result = NoneVal
            /\ \A r \in RunIds :
                (Started(r) /\ runs[r].orch = o /\ ~HasRun(r, i - 1)) =>
                    (step.compensation_args = NoneVal /\ step.result = NoneVal)

\* C13: compensation_args of a Step is unset exactly when no run's action of
\* that Step has succeeded, and result is unset then too; otherwise both hold
\* what the last successful action of the Step returned, in whichever run:
\* result the returned value itself (None after an action that returned
\* None), compensation_args its normalisation; no reachable state has one of
\* them written without the other, and a run in which the action has not
\* returned, or raised, leaves them as they were.
C13_WrittenTogether ==
    \A o \in Orchestrators :
        /\ Len(writer[o]) = Len(orchestrators[o])
        /\ \A i \in 1..Len(orchestrators[o]) :
            LET step == orchestrators[o][i]
            IN  /\ step.compensation_args = NoneVal <=>
                    \A r \in RunIds : ~(runs[r].orch = o /\ HasRun(r, i - 1))
                /\ step.compensation_args = NoneVal => step.result = NoneVal
                /\ step.compensation_args # NoneVal =>
                    /\ step.compensation_args.t \in {"list", "tuple"}
                    /\ step.compensation_args.v = Spread(step.result)
                    /\ writer[o][i] \in RunIds
                    /\ runs[writer[o][i]].orch = o
                    /\ Succeeded(writer[o][i], i - 1, step.result)

\* C13 witness: run 1 completed on o1 with step 0 returning a value; run 2, on
\* the same orchestrator, failed at step 0, and the Step still holds what run
\* 1 wrote.
C13_Witness ==
    /\ runs[1].pc = "completed"
    /\ runs[2].orch = "o1"
    /\ runs[2].pc = "failed"
    /\ runs[2].index = 0
    /\ orchestrators["o1"][1].result = Scalar(0)
    /\ orchestrators["o1"][1].compensation_args # NoneVal

\* execute of run r was called and has not returned or raised.
InProgress(r) ==
    runs[r].pc \in {"running", "action", "compensating", "compensation"}

\* C16 as claimed: the sequence a run iterates over keeps the length it had
\* when execute was called, and the run calls the actions and compensations
\* only of steps registered before that call.
C16_AsClaimed ==
    \A r \in RunIds : Started(r) =>
        /\ InProgress(r) => Len(Iterated(r)) = runs[r].started_len
        /\ \A p \in RunAt(r, "act_call") \cup RunAt(r, "comp_call") :
            runs[r].history[p].step < runs[r].started_len

\* No other call of execute is on run r's orchestrator.
Disjoint(r) ==
    \A q \in RunIds \ {r} : runs[q].orch # runs[r].orch

\* C17: a run on an orchestrator that no other run uses, however the other
\* run is interleaved with it, behaves as its own steps and the outcomes of
\* its own callables determine, which is how it behaves alone: it calls the
\* registered actions in order, each with the spread result of its own
\* previous action; after its own failure at step k it calls the registered
\* compensations of steps k-1, k-2, ... each with the spread result its own
\* action of that step returned; it completes after all its actions returned,
\* or raises a SagaError holding its own failed index, its own action's
\* exception and the exceptions its own compensations raised.
C17_Independent ==
    \A r \in RunIds : (Started(r) /\ Disjoint(r)) =>
        LET h == runs[r].history
            o == runs[r].orch
        IN  /\ \A p \in RunAt(r, "act_call") :
                LET k == h[p].step
                IN  /\ h[p].fn = registered[o][k + 1].action
                    /\ IF k = 0 THEN h[p].given = <<>>
                       ELSE \E q \in RunAt(r, "act_return") :
                            /\ q < p
                            /\ h[q].step = k - 1
                            /\ h[p].given = Spread(h[q].value)
            /\ \A p \in RunAt(r, "comp_call") :
                LET j == h[p].step
                IN  /\ h[p].fn = registered[o][j + 1].compensation
                    /\ h[p].writer = r
                    /\ \E q \in RunAt(r, "act_return") :
                            /\ q < p
                            /\ h[q].step = j
                            /\ h[p].given = Spread(h[q].value)
                    /\ \E q \in RunAt(r, "act_raise") :
                            q < p /\ h[q].step > j
            /\ IsPrefix(StepsOf(RunCalls(r, "comp_call")),
                        Descending(runs[r].index))
            /\ runs[r].pc = "completed" =>
                /\ RunAt(r, "act_raise") = {}
                /\ RunAt(r, "comp_call") = {}
                /\ StepsOf(RunCalls(r, "act_return")) =
                        Ascending(runs[r].ended_len)
                /\ runs[r].raised = NoError
            /\ runs[r].pc = "failed" =>
                /\ Cardinality(RunAt(r, "act_raise")) = 1
                /\ \A p \in RunAt(r, "act_raise") :
                    /\ runs[r].raised.failed_step_index = h[p].step
                    /\ runs[r].raised.action_exception = h[p].exc
                    /\ StepsOf(RunCalls(r, "comp_call")) =
                            Descending(h[p].step)
                /\ LET reported ==
                           runs[r].raised.compensation_exception_tracebacks
                   IN  /\ DOMAIN reported =
                            {h[p].step : p \in RunAt(r, "comp_raise")}
                       /\ \A p \in RunAt(r, "comp_raise") :
                            reported[h[p].step][1] = h[p].exc

\* C17 witness: run 1 on o1 and run 2 on o2 are both suspended in a call:
\* run 1 in the compensation of step 0, which received what run 1's action
\* returned, run 2 in the action of step 1, which received what run 2's action
\* of step 0 returned, and the two steps 0 returned different values.
C17_Witness ==
    /\ runs[1].orch = "o1"
    /\ runs[2].orch = "o2"
    /\ runs[1].pc = "compensation"
    /\ runs[2].pc = "action"
    /\ runs[2].index = 1
    /\ runs[1].history[Len(runs[1].history)].given = <<0>>
    /\ runs[2].history[Len(runs[2].history)].given = <<>>
    /\ orchestrators["o1"][1].result = Scalar(0)
    /\ orchestrators["o2"][1].result = NoneVal

\* C18: a compensation of step j receives what the Step holds when it is
\* called: the spread result of the last action of step j that returned on
\* that orchestrator, in whichever run; that run is the calling run itself
\* unless another run shares the orchestrator.
C18_LastWriterWins ==
    \A r \in RunIds : \A p \in RunAt(r, "comp_call") :
        LET call == runs[r].history[p]
            w == call.writer
        IN  /\ w \in RunIds
            /\ runs[w].orch = runs[r].orch
            /\ \E value \in RunResults :
                /\ Succeeded(w, call.step, value)
                /\ call.given = Spread(value)
            /\ w # r => ~Disjoint(r)

\* C18 witness: two runs on o1; run 1 calls the compensation of step 0 with
\* the compensation_args that run 2's action of step 0 wrote, which are not
\* what run 1's own action of step 0 returned.
C18_Witness ==
    /\ runs[1].orch = "o1"
    /\ runs[2].orch = "o1"
    /\ \E p \in RunAt(1, "comp_call") :
        LET call == runs[1].history[p]
        IN  /\ call.step = 0
            /\ call.writer = 2
            /\ \E value \in RunResults :
                /\ Succeeded(1, 0, value)
                /\ call.given # Spread(value)

====
